---- MODULE Spec2Model ----
(***************************************************************************)
(* A model of mmyron-ssh: the bubbletea program served over SSH.           *)
(*                                                                         *)
(* src/main.go holds two versions of the program.  The "landing" variant   *)
(* (lines 1-383) renders one fixed landing page; the "nav" variant (lines  *)
(* 384-817) browses /root, /posts and single posts.  The model follows one *)
(* session (its model struct `m`) through teaHandler and Update, together  *)
(* with the package-level variables that every session of the process      *)
(* shares (posts, glamourRenderer, lastFitWidth, projRender1..4, flex).    *)
(*                                                                         *)
(* Library calls (viewport, list, lipgloss.Place, glamour) are modelled by *)
(* what the call sites rely on: line counts, offsets and geometry.  A      *)
(* rendered string is a record naming the text it was rendered from and    *)
(* the wrap width used.  A step that returns tea.Quit ends the session.    *)
(*                                                                         *)
(* Other sessions of the same process appear through what they leave in    *)
(* the package-level variables: their teaHandler runs before the followed  *)
(* session's, their resizes between its steps.  One call of Update, with   *)
(* the View of the model it returned, is one step: View panics in          *)
(* HeaderView when the fitted width leaves the header text a budget below  *)
(* 4, and that ends the session.  Each step also records what it did (the  *)
(* conversions it asked for, the content replacements it made, the errors  *)
(* the converter returned) for the properties that speak about a step.     *)
(*                                                                         *)
(* Two further specifications share the module.  CallSpec applies the pure *)
(* functions of the program (SplitFrontmatterMarkdown, HeaderView, the     *)
(* trimming of converter results) to                                       *)
(* inputs drawn from bounded sets; strings are sequences of one-character  *)
(* strings there, so that splitting, trimming and slicing are computed.    *)
(* MainSpec follows func main and its listener goroutine from server       *)
(* construction to process exit.  While sessions run (Spec) no call is     *)
(* pending and main is blocked on the done channel with the listener       *)
(* serving.                                                                *)
(***************************************************************************)
EXTENDS Integers, Sequences, FiniteSets, TLC

\* ------------------------------------------------------------ constants
maxWidth == 80
headerHeight == 4
footerHeight == 4
useHighPerformanceRenderer == TRUE
\* the margin subtracted from a fitted width below maxWidth (landing variant)
fitMargin == 4
\* fitWidth above which the landing variant renders the blocks at half width
halfWidthAbove == 76
\* width of the gap between two blocks of a row, and of the half-width cut
gapWidth == 4

\* ------------------------------------------------------------ bounds
\* number of documents in fs/posts
NumFiles == 2
\* number of sessions the server process accepts before the followed one
MaxOtherSessions == 1
\* lines of a rendered document at full width (the converter is a black box)
DocLines == 2
\* lines of a stored file given to SplitFrontmatterMarkdown
MaxFmLines == 5
\* signals the process gets, and connections open at a time (MainSpec)
MaxSignals == 2
MaxConns == 1

\* terminal sizes <<width, height>> a WindowSizeMsg may carry: at and above
\* maxWidth, just below it, narrow, and fewer rows than header plus footer
TermSizes ==
  {<<100, 30>>, <<85, 30>>, <<79, 30>>, <<100, 10>>, <<79, 5>>, <<30, 10>>, <<10, 10>>}
\* what term.GetSize reports for the server's own stdout (0x0 when it fails)
PhysSizes == {<<0, 0>>, <<100, 40>>}
\* the terminal size another session's first WindowSizeMsg carries, and what
\* term.GetSize had reported to its teaHandler
OtherSizes == {<<79, 30>>}
OtherPhysSizes == {<<100, 40>>}

Variants == {"landing", "nav"}
Keys == {"q", "ctrl+c", "p", "b", "enter", "up", "down", "x"}

Min(a, b) == IF a < b THEN a ELSE b
Max(a, b) == IF a > b THEN a ELSE b
Clamp(v, lo, hi) == Max(lo, Min(v, hi))

VARIABLES
  variant,          \* which version of main.go runs
  disk,             \* the paths that can be read (files and directories)
  posts,            \* package-level `posts` slice (nav variant)
  glamourRenderer,  \* package-level renderer (nil until a Rerender builds one)
  lastFitWidth,     \* package-level lastFitWidth
  blocks,           \* package-level projRender1..4 and flex (landing variant)
  status,           \* "none" | "running" | "quit" | "panic"
  m,                \* the session's model struct
  lastMsg,          \* the message the last step processed ("other": not this session's)
  cmds,             \* the commands the last step returned (tea.Batch)
  loads,            \* the paths the last step passed to os.ReadFile
  others,           \* how many sessions teaHandler built before the followed one
  unconvertible,    \* the texts for which the converter's Render returns an error
  renders,          \* the <<text, wrap>> pairs the last step gave to the converter
  sets,             \* how many times the last step replaced the viewport's content
  errs,             \* how many errors the converter returned in the last step
  call,             \* CallSpec: the function applied and its arguments
  ret,              \* CallSpec: what the call returned (NoRet before it ran)
  srv,              \* MainSpec: "unset" | "ok" | "nil" (wish.NewServer's result)
  mainPc,           \* MainSpec: where func main is
  listenPc,         \* MainSpec: where the listener goroutine is
  done,             \* MainSpec: number of values buffered in the done channel
  signals,          \* MainSpec: signals the runtime relayed to done so far
  conns,            \* MainSpec: connections the server has open
  shutdowns,        \* MainSpec: how many times srv.Shutdown was called
  ctx               \* MainSpec: the context given to Shutdown

sessionVars ==
  <<variant, disk, posts, glamourRenderer, lastFitWidth, blocks, status,
    m, lastMsg, cmds, loads, others, unconvertible, renders, sets, errs>>
callVars == <<call, ret>>
mainVars == <<srv, mainPc, listenPc, done, signals, conns, shutdowns, ctx>>
vars == <<sessionVars, callVars, mainVars>>

\* ------------------------------------------------------------ the store
AllNames == <<"a.md", "b.md", "c.md", "d.md", "e.md">>
FileNames == SubSeq(AllNames, 1, NumFiles)
PostsDir == "fs/posts"
RootFile == "fs/root.md"
StyleFile == "./style.json"
StorePaths == {PostsDir \o "/" \o FileNames[i] : i \in 1..NumFiles}
FullDisk == {PostsDir, RootFile, StyleFile} \cup StorePaths
\* files under the names Rerender builds from the paths teaHandler gives the
\* posts ("fs" + "fs/posts" + name + ".md")
AliasPaths == {"fs" \o "fs/posts" \o FileNames[i] \o ".md" : i \in 1..NumFiles}
\* the disks a run may start with: everything there, one thing missing, or
\* the alias files there as well
DiskChoices ==
  { FullDisk,
    FullDisk \ {RootFile},
    FullDisk \ {StyleFile},
    {RootFile, StyleFile},
    FullDisk \cup AliasPaths }

\* the landing variant reads nothing but the style file
LandingDiskChoices == {FullDisk, FullDisk \ {StyleFile}}

\* the texts the converter may fail on in a run: none, or the root document
\* of a full store (nav), or one of the fixed texts (landing)
NavUnconvertible(d) == IF d = FullDisk THEN {{}, {RootFile}} ELSE {{}}
LandingUnconvertible(d) ==
  IF d = FullDisk THEN {{}, {"top", "prog3"}} ELSE {{}}

\* os.ReadDir("fs/posts"): the file names in order, <<>> with an error
ReadDir(d) ==
  IF PostsDir \in d
    THEN SelectSeq(FileNames, LAMBDA n : (PostsDir \o "/" \o n) \in d)
    ELSE <<>>

\* a post built by teaHandler from one file: md is the body split off the
\* file's content, named here by the file it was read from
MkPost(name) ==
  [ title |-> name,
    desc  |-> name,
    md    |-> PostsDir \o "/" \o name,
    path  |-> "fs/posts" \o name ]

\* ------------------------------------------------------------ rendered text
\* a string that was never set (viewport.New leaves lines nil)
NoContent ==
  [kind |-> "nil", text |-> "", wrap |-> 0, flex |-> "none", W |-> 0, H |-> 0, lines |-> 0]
\* the empty string: strings.Split("", "\n") is one empty line
EmptyContent ==
  [kind |-> "empty", text |-> "", wrap |-> 0, flex |-> "none", W |-> 0, H |-> 0, lines |-> 1]

\* line count of the converter's output for `text` wrapped at `wrap`
RenderLines(text, wrap) ==
  IF text = "" THEN 1
  ELSE IF wrap < maxWidth THEN DocLines + 1 ELSE DocLines

\* glamourRenderer.Render(text) with a renderer of wrap width `wrap`
Render(text, wrap) ==
  [text |-> text, wrap |-> wrap, flex |-> "none", lines |-> RenderLines(text, wrap)]

\* lipgloss.Place(width, height, Center, Top, str): str padded to at least
\* height lines; the record keeps the width and height it was placed for
Place(width, height, str) ==
  [kind |-> "container", text |-> str.text, wrap |-> str.wrap, flex |-> str.flex,
   W |-> width, H |-> height, lines |-> Max(height, str.lines)]

\* glamour.NewTermRenderer(WithEnvironmentConfig(), ...): GLAMOUR_STYLE names
\* ./style.json, and construction fails when that file cannot be read
RendererOk == StyleFile \in disk
\* the nil *glamour.TermRenderer, and a renderer built WithWordWrap(wrap)
NilRenderer == [ok |-> FALSE, wrap |-> 0]
TermRenderer(wrap) == [ok |-> TRUE, wrap |-> wrap]

\* ------------------------------------------------------------ viewport
\* viewport.New(width, height)
ViewportNew(width, height) ==
  [Width |-> width, Height |-> height, YOffset |-> 0, YPosition |-> 0,
   content |-> NoContent]

maxYOffset(vp) == Max(0, vp.content.lines - vp.Height)

\* (*Model).SetYOffset(n)
SetYOffset(vp, n) == [vp EXCEPT !.YOffset = Clamp(n, 0, maxYOffset(vp))]

\* SetContent without the move to the bottom
SetContent_KeepOffset(vp, c) == [vp EXCEPT !.content = c]

\* (*Model).SetContent(s): replaces the lines; an offset past the last line
\* goes to the bottom
SetContent(vp, c) ==
  LET v1 == [vp EXCEPT !.content = c]
  IN IF v1.YOffset > c.lines - 1 THEN SetYOffset(v1, maxYOffset(v1)) ELSE v1

\* commands
\* (`at` is the number of content replacements the step had made when the
\* command was created; the handlers fill it in)
Nil == [type |-> "nil", vp |-> ViewportNew(0, 0), at |-> 0]
Quit == [type |-> "quit", vp |-> ViewportNew(0, 0), at |-> 0]
\* viewport.Sync(m): a command carrying the viewport as it is at the call;
\* nil when the viewport has no lines
Sync(vp) == IF vp.content.lines = 0 THEN Nil ELSE [type |-> "sync", vp |-> vp, at |-> 0]
\* viewport.ViewUp / ViewDown: the scroll command of a line scroll
Scroll(vp) == [type |-> "scroll", vp |-> vp, at |-> 0]
\* tea.Batch(cmds...): the non-nil commands
Batch(cs) == SelectSeq(cs, LAMBDA c : c.type # "nil")

\* viewport.Update(msg) for a key: "down" scrolls a line down unless at the
\* bottom, "up" a line up unless at the top, "b" (page up) a viewport height
\* up unless at the top; the other keys of Keys are not in its key map
ViewportUpdate(vp, key) ==
  IF key = "down" /\ vp.YOffset < maxYOffset(vp) /\ vp.content.lines > 0
    THEN LET v == SetYOffset(vp, vp.YOffset + 1)
         IN [vp |-> v, cmd |-> IF useHighPerformanceRenderer THEN Scroll(v) ELSE Nil]
  ELSE IF key = "up" /\ vp.YOffset > 0
    THEN LET v == SetYOffset(vp, vp.YOffset - 1)
         IN [vp |-> v, cmd |-> IF useHighPerformanceRenderer THEN Scroll(v) ELSE Nil]
  ELSE IF key = "b" /\ vp.YOffset > 0 /\ vp.Height # 0 /\ vp.content.lines > 0
    THEN LET v == SetYOffset(vp, vp.YOffset - vp.Height)
         IN [vp |-> v,
             cmd |-> IF useHighPerformanceRenderer /\ v.YOffset # vp.YOffset
                       THEN Scroll(v) ELSE Nil]
  ELSE [vp |-> vp, cmd |-> Nil]

\* ------------------------------------------------------------ list
\* list.New(items, delegate, width, height)
ListNew(items, width, height) ==
  [items |-> items, index |-> 0, width |-> width, height |-> height]

\* list.Update(msg) for a key: the cursor moves within the items; ctrl+c is
\* the list's force-quit binding
ListUpdate(l, key) ==
  IF key = "down" /\ l.index < Len(l.items) - 1
    THEN [l |-> [l EXCEPT !.index = @ + 1], cmd |-> Nil]
  ELSE IF key = "up" /\ l.index > 0
    THEN [l |-> [l EXCEPT !.index = @ - 1], cmd |-> Nil]
  ELSE IF key = "ctrl+c" THEN [l |-> l, cmd |-> Quit]
  ELSE [l |-> l, cmd |-> Nil]

\* ------------------------------------------------------------ session state
\* the model struct; the landing variant has no currentPath, content or posts
\* and keeps them at these values
MkModel(vp, fit, list) ==
  [loaded |-> FALSE, viewport |-> vp, currentPath |-> "/root", content |-> "",
   fitWidth |-> fit, posts |-> list, cmdWidth |-> 0, cmdHeight |-> 0]

NoModel == MkModel(ViewportNew(0, 0), 0, ListNew(<<>>, 0, 0))
NoMsg == [type |-> "none", key |-> "", w |-> 0, h |-> 0]
InitMsg == [type |-> "init", key |-> "", w |-> 0, h |-> 0]
ResizeMsg(w, h) == [type |-> "resize", key |-> "", w |-> w, h |-> h]
KeyMsg(k) == [type |-> "key", key |-> k, w |-> 0, h |-> 0]
\* a message that went to another session
OtherMsg == [type |-> "other", key |-> "", w |-> 0, h |-> 0]
NoBlocks == [mode |-> "none", fitWidth |-> 0, wrap |-> 0, rows |-> <<>>, gaps |-> <<>>]

\* what a handler (or a part of one) leaves: the model, the shared renderer and
\* blocks, the commands appended so far, the files opened, and how it ended;
\* `renders` lists the <<text, wrap width>> pairs it gave to the converter,
\* `sets` counts its SetContent calls and `errs` the errors the converter
\* returned (from NewTermRenderer or from Render)
Res(mm, g, b, cs, ld, st) ==
  [m |-> mm, g |-> g, b |-> b, cmds |-> cs, loads |-> ld, st |-> st,
   renders |-> <<>>, sets |-> 0, errs |-> 0]

\* commands created after n earlier content replacements of the step
Stamp(cs, n) ==
  [i \in 1..Len(cs) |-> IF cs[i].type = "sync" THEN [cs[i] EXCEPT !.at = @ + n]
                                                ELSE cs[i]]

\* a part that converted the pairs rn, then replaced the content once, then
\* created its commands
Traced(r, rn) ==
  [r EXCEPT !.renders = rn, !.sets = 1, !.cmds = Stamp(r.cmds, 1)]

\* a part that ended with an error of the converter, after converting rn
Failed(r, rn) == [r EXCEPT !.renders = rn, !.errs = 1]

\* a second call made on the result of a first one
Then(r1, r2) ==
  [m |-> r2.m, g |-> r2.g, b |-> r2.b,
   cmds |-> r1.cmds \o Stamp(r2.cmds, r1.sets),
   loads |-> r1.loads \o r2.loads,
   st |-> IF r2.st = "panic" THEN "panic"
          ELSE IF r1.st = "quit" THEN "quit" ELSE r2.st,
   renders |-> r1.renders \o r2.renders,
   sets |-> r1.sets + r2.sets,
   errs |-> r1.errs + r2.errs]

\* ------------------------------------------------------------ nav variant
\* RerenderPosts with the sync made before the viewport is cleared
RerenderPosts_SyncFirst(mm, g) ==
  LET v1 == SetYOffset(mm.viewport, 0)
      v2 == [v1 EXCEPT !.Width = 0, !.Height = 0]
      v3 == SetContent(v2, EmptyContent)
  IN [Res([mm EXCEPT !.viewport = v3], g, NoBlocks,
          <<IF useHighPerformanceRenderer THEN Sync(mm.viewport) ELSE Nil>>, <<>>, "running")
        EXCEPT !.sets = 1]

\* Rerender, the /posts branch: the viewport is cleared to 0x0 and synced
RerenderPosts(mm, g) ==
  LET v1 == SetYOffset(mm.viewport, 0)
      v2 == [v1 EXCEPT !.Width = 0, !.Height = 0]
      v3 == SetContent(v2, EmptyContent)
  IN Traced(Res([mm EXCEPT !.viewport = v3], g, NoBlocks,
                <<IF useHighPerformanceRenderer THEN Sync(v3) ELSE Nil>>, <<>>, "running"),
            <<>>)

\* the file Rerender opens for the current path
LoadPath(path) == "fs" \o path \o ".md"

\* Rerender, after a Render without error: the container is placed, set as the
\* viewport's content and synced
RerenderPlace(m2, ld, vp) ==
  Traced(Res([m2 EXCEPT !.viewport = vp], TermRenderer(m2.fitWidth), NoBlocks,
             <<IF useHighPerformanceRenderer THEN Sync(vp) ELSE Nil>>, ld, "running"),
         <<<<m2.content, m2.fitWidth>>>>)

\* Rerender from the render of m.content on: a Render error quits
RerenderSet(m2, ld) ==
  IF m2.content \in unconvertible
    THEN Failed(Res(m2, TermRenderer(m2.fitWidth), NoBlocks, <<Quit>>, ld, "quit"),
                <<<<m2.content, m2.fitWidth>>>>)
    ELSE RerenderPlace(m2, ld,
           SetContent(m2.viewport,
                      IF useHighPerformanceRenderer
                        THEN Place(m2.cmdWidth, m2.viewport.Height,
                                   Render(m2.content, m2.fitWidth))
                        ELSE Place(0, 0, Render(m2.content, m2.fitWidth))))

\* RerenderPage going back to /root, and on, when the file cannot be read
RerenderPage_BackToRoot(mm, g, needsNewFile) ==
  LET m1 == [mm EXCEPT !.viewport.Height = mm.cmdHeight - headerHeight - footerHeight]
      file == LoadPath(m1.currentPath)
  IN IF ~RendererOk THEN Failed(Res(m1, g, NoBlocks, <<Quit>>, <<>>, "quit"), <<>>)
     ELSE IF ~needsNewFile THEN RerenderSet(m1, <<>>)
     ELSE IF file \notin disk
       THEN Res([m1 EXCEPT !.currentPath = "/root"], TermRenderer(m1.fitWidth),
                NoBlocks, <<>>, <<file>>, "running")
     ELSE RerenderSet([m1 EXCEPT !.content = file,
                                 !.viewport = SetYOffset(m1.viewport, 0)],
                      <<file>>)

\* Rerender, a page other than /posts
RerenderPage(mm, g, needsNewFile) ==
  LET m1 == [mm EXCEPT !.viewport.Height = mm.cmdHeight - headerHeight - footerHeight]
      file == LoadPath(m1.currentPath)
  IN IF ~RendererOk THEN Failed(Res(m1, g, NoBlocks, <<Quit>>, <<>>, "quit"), <<>>)
     ELSE IF ~needsNewFile THEN RerenderSet(m1, <<>>)
     ELSE IF file \notin disk
       THEN Res(m1, TermRenderer(m1.fitWidth), NoBlocks, <<Quit>>, <<file>>, "quit")
     ELSE RerenderSet([m1 EXCEPT !.content = file,
                                 !.viewport = SetYOffset(m1.viewport, 0)],
                      <<file>>)

\* Rerender(m, needsNewFile)
Rerender(mm, g, needsNewFile) ==
  IF mm.currentPath = "/posts" THEN RerenderPosts(mm, g)
  ELSE RerenderPage(mm, g, needsNewFile)

\* NavFitWidth without the cap at maxWidth
NavFitWidth_NoCap(w) == w

\* the fitted width Update computes from a WindowSizeMsg
NavFitWidth(w) == Min(w, maxWidth)

\* NavResizeDims setting the viewport height at /posts as well
NavResizeDims_AnyPath(mm, w, h) ==
  [mm EXCEPT
     !.fitWidth = NavFitWidth(w),
     !.viewport.Height = h - headerHeight - footerHeight,
     !.cmdWidth = w,
     !.cmdHeight = h,
     !.posts.width = NavFitWidth(w),
     !.posts.height = h - headerHeight - footerHeight]

\* Update, case tea.WindowSizeMsg: the widths and heights taken from the message
NavResizeDims(mm, w, h) ==
  [mm EXCEPT
     !.fitWidth = NavFitWidth(w),
     !.viewport.Height =
        IF mm.currentPath # "/posts" THEN h - headerHeight - footerHeight ELSE @,
     !.cmdWidth = w,
     !.cmdHeight = h,
     !.posts.width = NavFitWidth(w),
     !.posts.height = h - headerHeight - footerHeight]

\* ... if the viewport is not loaded yet, the current page is loaded
NavResizeFirst(m1, g) ==
  IF ~m1.loaded THEN Rerender([m1 EXCEPT !.loaded = TRUE], g, TRUE)
  ELSE Res(m1, g, NoBlocks, <<>>, <<>>, "running")

\* NavResizeChanged going back to the root page and loading it
NavResizeChanged_ToRoot(r1, last) ==
  IF last # r1.m.fitWidth
    THEN Then(r1, Rerender([r1.m EXCEPT !.currentPath = "/root"], r1.g, TRUE))
    ELSE r1

\* ... a rerender is requested if the best fit width has changed
NavResizeChanged(r1, last) ==
  IF last # r1.m.fitWidth THEN Then(r1, Rerender(r1.m, r1.g, FALSE)) ELSE r1

\* ... the viewport is anchored below the header and synced
ResizeSync(r2) ==
  IF useHighPerformanceRenderer
    THEN [r2 EXCEPT
            !.m.viewport.YPosition = headerHeight + 1,
            !.cmds = @ \o Stamp(<<Sync([r2.m.viewport EXCEPT
                                          !.YPosition = headerHeight + 1])>>,
                                r2.sets)]
    ELSE r2

\* Update, case tea.WindowSizeMsg
NavResize(mm, g, w, h) ==
  ResizeSync(NavResizeChanged(NavResizeFirst(NavResizeDims(mm, w, h), g), mm.fitWidth))

\* a navigation branch of Update: Rerender's command is appended in the branch
\* and again after the switch
NavigateRes(r) == [r EXCEPT !.cmds = r.cmds \o r.cmds]

\* ... after the path is set
Navigate(mm, g, path, needsNewFile) ==
  NavigateRes(Rerender([mm EXCEPT !.currentPath = path], g, needsNewFile))

\* NavKeyQ going back to the root page before it quits
NavKeyQ_ToRoot(mm, g) ==
  Res([mm EXCEPT !.currentPath = "/root"], g, NoBlocks, <<Quit>>, <<>>, "quit")

\* case "q"
NavKeyQ(mm, g) == Res(mm, g, NoBlocks, <<Quit>>, <<>>, "quit")

\* case "p": to the posts page iff at root
NavKeyP(mm, g) ==
  IF mm.currentPath = "/root" THEN Navigate(mm, g, "/posts", FALSE)
  ELSE Res(mm, g, NoBlocks, <<>>, <<>>, "running")

\* case "b": to the root page from any other page
NavKeyB(mm, g) ==
  IF mm.currentPath # "/root" THEN Navigate(mm, g, "/root", TRUE)
  ELSE Res(mm, g, NoBlocks, <<>>, <<>>, "running")

\* m.posts.SelectedItem(): nil for an empty list
HasSelectedItem(l) == l.index + 1 \in 1..Len(l.items)
SelectedItem(l) == l.items[l.index + 1]

\* NavKeyEnter going to a path made from the selected item's title
NavKeyEnter_ByTitle(mm, g) ==
  IF mm.currentPath = "/posts" /\ HasSelectedItem(mm.posts)
    THEN Navigate(mm, g, "/" \o SelectedItem(mm.posts).title, TRUE)
    ELSE Res(mm, g, NoBlocks, <<>>, <<>>, "running")

\* NavKeyEnter without its test of the current page
NavKeyEnter_AnyPage(mm, g) ==
  IF HasSelectedItem(mm.posts)
    THEN Navigate(mm, g, SelectedItem(mm.posts).path, TRUE)
    ELSE Res(mm, g, NoBlocks, <<>>, <<>>, "panic")

\* case "enter": at /posts the selected post is loaded; the type assertion
\* on a nil SelectedItem panics
NavKeyEnter(mm, g) ==
  IF mm.currentPath = "/posts"
    THEN IF HasSelectedItem(mm.posts)
           THEN Navigate(mm, g, SelectedItem(mm.posts).path, TRUE)
           ELSE Res(mm, g, NoBlocks, <<>>, <<>>, "panic")
  ELSE Res(mm, g, NoBlocks, <<>>, <<>>, "running")

\* the viewport's answer to a key, put into the model
ViewportRes(mm, g, b, u) ==
  Res([mm EXCEPT !.viewport = u.vp], g, b, <<u.cmd>>, <<>>, "running")

\* the list's answer to a key, put into the model
ListRes(mm, g, u) ==
  Res([mm EXCEPT !.posts = u.l], g, NoBlocks, <<u.cmd>>, <<>>,
      IF u.cmd.type = "quit" THEN "quit" ELSE "running")

\* default: the key goes to the viewport, or to the list at /posts
NavKeyDefault(mm, g, key) ==
  IF mm.currentPath # "/posts"
    THEN ViewportRes(mm, g, NoBlocks, ViewportUpdate(mm.viewport, key))
    ELSE ListRes(mm, g, ListUpdate(mm.posts, key))

\* Update, case tea.KeyMsg
NavKey(mm, g, key) ==
  CASE key = "q" -> NavKeyQ(mm, g)
    [] key = "p" -> NavKeyP(mm, g)
    [] key = "b" -> NavKeyB(mm, g)
    [] key = "enter" -> NavKeyEnter(mm, g)
    [] OTHER -> NavKeyDefault(mm, g, key)

\* teaHandler: the posts read from fs/posts are appended to the package-level
\* slice, and the list is built from that slice
NavTeaHandlerPosts(ps, d) ==
  ps \o [i \in 1..Len(ReadDir(d)) |-> MkPost(ReadDir(d)[i])]

\* teaHandler: every file of fs/posts is read whole with os.ReadFile
NavTeaHandlerLoads(d) ==
  [i \in 1..Len(ReadDir(d)) |-> PostsDir \o "/" \o ReadDir(d)[i]]

NavTeaHandlerModel(ps, phys) ==
  MkModel(ViewportNew(phys[1], phys[2] - headerHeight - footerHeight),
          Min(phys[1], maxWidth),
          ListNew(ps, Min(phys[1], maxWidth), phys[2] - headerHeight - footerHeight))

\* ------------------------------------------------------------ landing variant
\* line count of fixed block i rendered at wrap width `wrap`
BlockLines(i, wrap) == 1 + (i % 2) + (IF wrap < maxWidth \div 2 THEN 1 ELSE 0)

\* the fixed texts of the landing page
ProgTexts == <<"prog1", "prog2", "prog3", "prog4">>

\* renderer.Render(prog_i) with the leading and trailing newline trimmed; the
\* error is dropped, and with an error the string is empty
RenderBlock(i, wrap) ==
  [src |-> i, wrap |-> wrap,
   lines |-> IF ProgTexts[i] \in unconvertible THEN 1 ELSE BlockLines(i, wrap)]

\* strings.Count(s, "\n") of a rendered block
NewlineCount(b) == b.lines - 1

\* the wrap width of the renderer used for the four fixed blocks
BlockWrap(fit) == IF fit > halfWidthAbove THEN fit \div 2 - gapWidth ELSE fit

\* ColumnMode with the test off by one
ColumnMode_AtMost(fit) == IF fit <= maxWidth THEN "single" ELSE "dual"

\* single column below maxWidth, two rows of two otherwise
ColumnMode(fit) == IF fit < maxWidth THEN "single" ELSE "dual"

\* flex for the single column: the four blocks stacked
ArrangeSingle(fit, p) ==
  [mode |-> "single", fitWidth |-> fit, wrap |-> BlockWrap(fit),
   rows |-> <<<<p[1]>>, <<p[2]>>, <<p[3]>>, <<p[4]>>>>, gaps |-> <<>>]

\* flex for two columns; before the rows are built,
\* projRender3 = strings.TrimSuffix(projRender2, "\n")
ArrangeDual(fit, p) ==
  [mode |-> "dual", fitWidth |-> fit, wrap |-> BlockWrap(fit),
   rows |-> <<<<p[1], p[2]>>, <<p[2], p[4]>>>>,
   gaps |-> << Max(NewlineCount(p[1]), NewlineCount(p[2])),
               Max(NewlineCount(p[2]), NewlineCount(p[4])) >>]

\* the four blocks and `flex` as RerenderContent leaves them
Arrange(fit) ==
  IF ColumnMode(fit) = "single"
    THEN ArrangeSingle(fit, [i \in 1..4 |-> RenderBlock(i, BlockWrap(fit))])
    ELSE ArrangeDual(fit, [i \in 1..4 |-> RenderBlock(i, BlockWrap(fit))])

\* line count of one row: as high as its highest block
RowLines(r) == IF Len(r) = 1 THEN r[1].lines ELSE Max(r[1].lines, r[2].lines)

RECURSIVE RowsLines(_)
\* line count of the rows joined vertically
RowsLines(rows) ==
  IF rows = <<>> THEN 0 ELSE RowLines(Head(rows)) + RowsLines(Tail(rows))

\* line count of glamourRenderer.Render(text) with its error dropped: the
\* empty string when the conversion fails
ConvLines(text, wrap) ==
  IF text \in unconvertible THEN 1 ELSE RenderLines(text, wrap)

\* the blocks whose text went into `flex`
BlockTexts(b) ==
  UNION { {ProgTexts[b.rows[i][j].src] : j \in 1..Len(b.rows[i])} : i \in 1..Len(b.rows) }

\* topRender, flex, botRender and the three contact lines joined vertically;
\* the page is partial when a conversion that went into it had failed
Combined(wrap, b) ==
  [text |-> IF ({"top", "bot"} \cup BlockTexts(b)) \cap unconvertible = {}
              THEN "landing" ELSE "partial",
   wrap |-> wrap, flex |-> b.mode,
   lines |-> ConvLines("top", wrap) + RowsLines(b.rows) + ConvLines("bot", wrap) + 3]

\* the pairs given to the converter for the four blocks, and for top and bot
BlockRenders(fit) == [i \in 1..4 |-> <<ProgTexts[i], BlockWrap(fit)>>]
TopBotRenders(wrap) == << <<"top", wrap>>, <<"bot", wrap>> >>

\* how many of the conversions rn returned an error
ErrCount(rn) == Cardinality({i \in 1..Len(rn) : rn[i][1] \in unconvertible})

\* RerenderContent from the render of top and bot on, after the conversions rn;
\* Render on the nil renderer panics, and the errors of Render are dropped
RerenderContentSet(m1, g1, b1, rn) ==
  IF ~g1.ok THEN Res(m1, g1, b1, <<>>, <<>>, "panic")
  ELSE
    LET vp == SetContent(m1.viewport,
                         IF useHighPerformanceRenderer
                           THEN Place(m1.cmdWidth, m1.viewport.Height, Combined(g1.wrap, b1))
                           ELSE Place(0, 0, Combined(g1.wrap, b1)))
    IN [Traced(Res([m1 EXCEPT !.viewport = vp], g1, b1,
                   <<IF useHighPerformanceRenderer THEN Sync(vp) ELSE Nil>>, <<>>,
                   "running"),
               rn \o TopBotRenders(g1.wrap))
          EXCEPT !.errs = ErrCount(rn \o TopBotRenders(g1.wrap))]

\* RerenderContent(m, needsNewFile, needsNewTerm)
RerenderContent(mm, g, b, needsNewTerm) ==
  LET m1 == [mm EXCEPT !.viewport.Height = mm.cmdHeight - headerHeight - footerHeight]
  IN IF ~needsNewTerm THEN RerenderContentSet(m1, g, b, <<>>)
     ELSE IF ~RendererOk THEN Failed(Res(m1, g, b, <<Quit>>, <<>>, "quit"), <<>>)
     ELSE RerenderContentSet(m1, TermRenderer(m1.fitWidth), Arrange(m1.fitWidth),
                             BlockRenders(m1.fitWidth))

\* LandingFitWidth with the margin left out
LandingFitWidth_NoMargin(w) == Min(w, maxWidth)

\* the fitted width Update computes from a WindowSizeMsg
LandingFitWidth(w) ==
  IF Min(w, maxWidth) < maxWidth THEN Min(w, maxWidth) - fitMargin ELSE Min(w, maxWidth)

\* Update, case tea.WindowSizeMsg: the widths and heights taken from the message
LandingResizeDims(mm, w, h) ==
  [mm EXCEPT !.fitWidth = LandingFitWidth(w),
             !.viewport.Height = h - headerHeight - footerHeight,
             !.cmdWidth = w,
             !.cmdHeight = h]

\* ... if the viewport is not loaded yet, the content is rendered
LandingResizeFirst(m1, g, b) ==
  IF ~m1.loaded THEN RerenderContent([m1 EXCEPT !.loaded = TRUE], g, b, TRUE)
  ELSE Res(m1, g, b, <<>>, <<>>, "running")

\* ... and rendered again, with a new renderer if the best fit width has changed
LandingResizeChanged(r1, last) ==
  Then(r1, RerenderContent(r1.m, r1.g, r1.b, last # r1.m.fitWidth))

\* Update, case tea.WindowSizeMsg
LandingResize(mm, g, b, w, h) ==
  ResizeSync(LandingResizeChanged(LandingResizeFirst(LandingResizeDims(mm, w, h), g, b),
                                  mm.fitWidth))

\* case "q", "ctrl+c"
LandingKeyQ(mm, g, b) == Res(mm, g, b, <<Quit>>, <<>>, "quit")

\* Update, case tea.KeyMsg
LandingKey(mm, g, b, key) ==
  IF key \in {"q", "ctrl+c"} THEN LandingKeyQ(mm, g, b)
  ELSE ViewportRes(mm, g, b, ViewportUpdate(mm.viewport, key))

\* teaHandler
LandingTeaHandlerModel(phys) ==
  MkModel(ViewportNew(phys[1], phys[2] - headerHeight - footerHeight),
          Min(phys[1], maxWidth), ListNew(<<>>, 0, 0))

\* ------------------------------------------------------------ View
\* lipgloss.NewStyle().Width(4).Height(n).Render(): a block of n lines, one
\* line when n is below one
GapHeight(n) == Max(1, n)

\* m.posts.View(): the list drawn for its height, at least one line
ListViewLines(l) == Max(1, l.height)

\* View, the inner part: the newlines that keep the place of the viewport, or
\* the list placed at its height on the posts page
ViewInnerLines(mm) ==
  IF mm.currentPath = "/posts"
    THEN Max(mm.posts.height, ListViewLines(mm.posts))
    ELSE Max(0, mm.viewport.Height - 1) + 1

\* View: header, inner and footer joined vertically and rendered with
\* Height(m.cmdHeight), which pads a shorter string and cuts nothing
ViewLines(mm) ==
  Max(mm.cmdHeight, headerHeight + ViewInnerLines(mm) + footerHeight)

\* ------------------------------------------------------------ strings
\* In CallSpec a string is a sequence of one-character strings.

\* strings.HasPrefix(s, prefix)
HasPrefix(s, prefix) ==
  Len(s) >= Len(prefix) /\ SubSeq(s, 1, Len(prefix)) = prefix

\* strings.Contains(s, c) for a one-character c
Contains(s, c) == \E i \in 1..Len(s) : s[i] = c

\* strings.Index(s, c) + 1 for a one-character c that s contains
IndexOf(s, c) == CHOOSE i \in 1..Len(s) : s[i] = c /\ \A j \in 1..(i - 1) : s[j] # c

\* strings.Split(s, sep) for a one-character sep: s is cut at every sep, and
\* a string without sep is one piece
RECURSIVE StringsSplit(_, _)
StringsSplit(s, sep) ==
  IF ~Contains(s, sep) THEN <<s>>
  ELSE <<SubSeq(s, 1, IndexOf(s, sep) - 1)>>
         \o StringsSplit(SubSeq(s, IndexOf(s, sep) + 1, Len(s)), sep)

\* strings.Join(parts, sep)
RECURSIVE StringsJoin(_, _)
StringsJoin(parts, sep) ==
  IF parts = <<>> THEN <<>>
  ELSE IF Len(parts) = 1 THEN parts[1]
  ELSE parts[1] \o <<sep>> \o StringsJoin(Tail(parts), sep)

\* strings.TrimSpace(s)
IsSpace(c) == c \in {" ", "\t", "\r", "\n"}
RECURSIVE TrimLeft(_)
TrimLeft(s) == IF s # <<>> /\ IsSpace(s[1]) THEN TrimLeft(Tail(s)) ELSE s
RECURSIVE TrimRight(_)
TrimRight(s) ==
  IF s # <<>> /\ IsSpace(s[Len(s)]) THEN TrimRight(SubSeq(s, 1, Len(s) - 1)) ELSE s
TrimSpace(s) == TrimRight(TrimLeft(s))

\* ------------------------------------------------------------ frontmatter
\* the delimiter "---"
Delim == <<"-", "-", "-">>

\* make(map[string]interface{}), and fm[key] = value
EmptyMap == <<>>
MapPut(fm, key, value) ==
  [k \in (DOMAIN fm) \cup {key} |-> IF k = key THEN value ELSE fm[k]]

\* what a call returns: the body and the map, or a run-time panic
SplitOk(body, fm) == [st |-> "ok", body |-> body, fm |-> fm]
SplitPanic == [st |-> "panic", body |-> <<>>, fm |-> EmptyMap]

\* FirstLineOpens with the test made on any line of the file
FirstLineOpens_AnyLine(lines) == \E i \in 1..Len(lines) : HasPrefix(lines[i], Delim)

\* the test that the file starts with a metadata block
FirstLineOpens(lines) == HasPrefix(lines[1], Delim)

\* a line of the block with a colon: the line is cut at every colon, and the
\* first piece is the key, the second the value, both trimmed
ParseLine(fm, line) ==
  IF Contains(line, ":")
    THEN MapPut(fm, TrimSpace(StringsSplit(line, ":")[1]),
                    TrimSpace(StringsSplit(line, ":")[2]))
    ELSE fm

\* ScanLines with the body starting at the line after the closing delimiter
RECURSIVE ScanLines_KeepBlank(_, _, _, _)
ScanLines_KeepBlank(content, lines, i, fm) ==
  IF i > Len(lines) THEN SplitOk(content, fm)
  ELSE IF HasPrefix(lines[i], Delim)
    THEN SplitOk(StringsJoin(SubSeq(lines, i + 1, Len(lines)), "\n"), fm)
  ELSE ScanLines_KeepBlank(content, lines, i + 1, ParseLine(fm, lines[i]))

\* the loop over the lines from line i on (i counts from 1; the code's index
\* is i - 1).  At a closing delimiter the body is lines[i+2:] in the code's
\* index, a slice that panics when it starts past the end.  When the loop
\* ends without a closing delimiter the whole content is returned with the
\* map as filled so far.
RECURSIVE ScanLines(_, _, _, _)
ScanLines(content, lines, i, fm) ==
  IF i > Len(lines) THEN SplitOk(content, fm)
  ELSE IF HasPrefix(lines[i], Delim)
    THEN IF i + 1 > Len(lines) THEN SplitPanic
         ELSE SplitOk(StringsJoin(SubSeq(lines, i + 2, Len(lines)), "\n"), fm)
  ELSE ScanLines(content, lines, i + 1, ParseLine(fm, lines[i]))

SplitFrontmatterMarkdown(content) ==
  IF FirstLineOpens(StringsSplit(content, "\n"))
    THEN ScanLines(content, StringsSplit(content, "\n"), 2, EmptyMap)
    ELSE SplitOk(content, EmptyMap)

\* the lines a stored file is made of: the delimiter, a blank line, key: value
\* lines (one with colons in the value and blanks around the key, one with
\* nothing after the colon) and a line of body text
FmLineChoices ==
  { Delim,
    <<>>,
    <<"k", ":", " ", "v">>,
    <<"t", " ", ":", " ", "a", ":", "b">>,
    <<"k", ":">>,
    <<"x">> }

\* the sequences of n lines
RECURSIVE LineSeqs(_)
LineSeqs(n) ==
  IF n = 0 THEN {<<>>}
  ELSE {<<l>> \o r : l \in FmLineChoices, r \in LineSeqs(n - 1)}

\* the files of one to max lines joined by newlines (one empty line is the
\* empty file)
FmContents(max) ==
  {StringsJoin(ls, "\n") : ls \in UNION {LineSeqs(n) : n \in 1..max}}

\* ------------------------------------------------------------ HeaderView
linkPadding == 2
altLinkWidth(v) == IF v = "nav" THEN 11 ELSE 0

\* "mmyron.com", and the locations as strings
Site == <<"m", "m", "y", "r", "o", "n", ".", "c", "o", "m">>
RootPath == <<"/", "r", "o", "o", "t">>
PostsPath == <<"/", "p", "o", "s", "t", "s">>
PostPath == <<"f", "s", "/", "p", "o", "s", "t", "s", "a", ".", "m", "d">>
HeaderPaths(v) == IF v = "nav" THEN {RootPath, PostsPath, PostPath} ELSE {RootPath}

\* the colour profile lipgloss found for the process's output: Ascii when it
\* is no terminal, a colour profile otherwise
Profiles == {"Ascii", "TrueColor"}

\* n bytes of an escape sequence
Sgr(n) == [i \in 1..n |-> "ESC"]

\* ApplyNormal(s): Render of a style with a foreground colour.  Under a colour
\* profile the text is wrapped in the colour's SGR sequence (ESC [ 38;2;r;g;b m)
\* and the reset sequence (ESC [ 0 m); under Ascii it is returned as it is.
ApplyNormal(s, profile) ==
  IF profile = "Ascii" THEN s ELSE Sgr(19) \o s \o Sgr(4)

\* the characters of a styled string that are shown
Visible(s) == SelectSeq(s, LAMBDA c : c # "ESC")

\* the header text before styling
HeaderText(v, path) ==
  IF v = "nav" /\ path # RootPath THEN Site \o path ELSE Site \o <<"/">>

\* the width left for the text
mainContentWidth(v, fitWidth) == (fitWidth - altLinkWidth(v)) - 2 - 2 * linkPadding

\* View calls HeaderView(m) for every frame: the text is longer than a budget
\* below 4, so HeaderView panics there and View with it
ViewPanics(v, fitWidth) == mainContentWidth(v, fitWidth) - 4 < 0

\* HeaderView up to the text given to the table: len counts the bytes of the
\* styled string, and the slice content[:mainContentWidth-4] panics when its
\* end is negative
HeaderView(v, fitWidth, path, profile) ==
  IF Len(ApplyNormal(HeaderText(v, path), profile)) > mainContentWidth(v, fitWidth)
    THEN IF mainContentWidth(v, fitWidth) - 4 < 0
           THEN [st |-> "panic", content |-> <<>>]
           ELSE [st |-> "ok",
                 content |-> SubSeq(ApplyNormal(HeaderText(v, path), profile),
                                    1, mainContentWidth(v, fitWidth) - 4)
                               \o <<".", ".", ".">>]
    ELSE [st |-> "ok", content |-> ApplyNormal(HeaderText(v, path), profile)]

\* the fitted width after a WindowSizeMsg of width w
FitWidth(v, w) == IF v = "nav" THEN NavFitWidth(w) ELSE LandingFitWidth(w)

\* the calls View makes: any terminal width up to just above maxWidth
HeaderCalls ==
  UNION {{[fn |-> "HeaderView", args |-> <<v, FitWidth(v, w), path, profile>>] :
            w \in 0..(maxWidth + 1), path \in HeaderPaths(v), profile \in Profiles} :
         v \in Variants}

\* ------------------------------------------------------------ normalization
\* the most newlines a converter result starts or ends with
MaxNewlines == 2

NL == <<"\n">>

\* strings.TrimPrefix(s, prefix)
TrimPrefix(s, prefix) ==
  IF HasPrefix(s, prefix) THEN SubSeq(s, Len(prefix) + 1, Len(s)) ELSE s

\* strings.HasSuffix(s, suffix)
HasSuffix(s, suffix) ==
  Len(s) >= Len(suffix) /\ SubSeq(s, Len(s) - Len(suffix) + 1, Len(s)) = suffix

\* strings.TrimSuffix(s, suffix)
TrimSuffix(s, suffix) ==
  IF HasSuffix(s, suffix) THEN SubSeq(s, 1, Len(s) - Len(suffix)) ELSE s

\* results of renderer.Render: some text between newlines
Newlines(n) == [i \in 1..n |-> "\n"]
ConverterOutputs(max) ==
  {Newlines(a) \o <<"x">> \o Newlines(b) : a \in 0..max, b \in 0..max}

\* projRender1..4 as RerenderContent joins them into flex, from the converter
\* results raws[1..4]: each has one leading and one trailing newline trimmed;
\* projRender4 has another trailing newline trimmed in both arrangements, and
\* in the dual arrangement projRender3 = strings.TrimSuffix(projRender2, "\n")
projRender(i, fitWidth, raws) ==
  IF i = 4 THEN TrimSuffix(TrimSuffix(TrimPrefix(raws[4], NL), NL), NL)
  ELSE IF i = 3 /\ ~(fitWidth < maxWidth)
    THEN TrimSuffix(TrimSuffix(TrimPrefix(raws[2], NL), NL), NL)
  ELSE TrimSuffix(TrimPrefix(raws[i], NL), NL)

\* topRender = strings.TrimPrefix(topRender, "\n")
topRender(raw) == TrimPrefix(raw, NL)

\* botRender = strings.TrimSuffix(botRender, "\n")
botRender(raw) == TrimSuffix(raw, NL)

\* Rerender: render, the converter's result for m.content, is given to
\* lipgloss.Place as it was returned
documentRender(raw) == raw

\* the string a converter result becomes before it is used
Normalize(site, i, fitWidth, raws) ==
  [st |-> "ok",
   body |-> CASE site = "block" -> projRender(i, fitWidth, raws)
              [] site = "top" -> topRender(raws[1])
              [] site = "bot" -> botRender(raws[1])
              [] site = "document" -> documentRender(raws[1])]

\* the four results for the blocks: those that projRender_i does not read are
\* a plain line
BlockRaws(i, max) ==
  {[j \in 1..4 |-> IF j = i THEN a ELSE IF j = 2 /\ i = 3 THEN b ELSE <<"x">>] :
     a \in ConverterOutputs(max), b \in ConverterOutputs(max)}

NormalizeCalls(max) ==
  {[fn |-> "Normalize", args |-> <<"block", c[1], c[2], c[3]>>] :
     c \in UNION {{<<i, f, r>> : f \in {maxWidth - 1 - fitMargin, maxWidth},
                                 r \in BlockRaws(i, max)} : i \in 1..4}}
  \cup {[fn |-> "Normalize", args |-> <<site, 1, 0, <<raw>>>>] :
          site \in {"top", "bot", "document"}, raw \in ConverterOutputs(max)}

\* ------------------------------------------------------------ calls
NoRet == [st |-> "none"]
NoCall ==
  /\ call = [fn |-> "none", args |-> <<>>]
  /\ ret = NoRet

SplitCalls(max) ==
  {[fn |-> "SplitFrontmatterMarkdown", args |-> <<c>>] : c \in FmContents(max)}

\* ------------------------------------------------------------ func main
\* capacity of the done channel, and the seconds Shutdown's context lasts
doneCap == 1
shutdownTimeout == 30

NoCtx == [timeout |-> 0, expired |-> FALSE]

\* main blocked on the done channel, the listener serving
Serving ==
  /\ srv = "ok"
  /\ mainPc = "recv"
  /\ listenPc = "serving"
  /\ done = 0
  /\ signals = 0
  /\ conns = 0
  /\ shutdowns = 0
  /\ ctx = NoCtx

\* the process runs: main has not returned and no goroutine has panicked
Alive == mainPc \notin {"returned", "panic"}

\* srv, err := wish.NewServer(...): on an error srv is nil; the error is
\* logged and main goes on
MainNewServer ==
  /\ mainPc = "start"
  /\ srv' \in {"ok", "nil"}
  /\ mainPc' = "notify"
  /\ UNCHANGED <<listenPc, done, signals, conns, shutdowns, ctx>>
  /\ UNCHANGED <<sessionVars, callVars>>

\* done := make(chan os.Signal, 1); signal.Notify(done, ...)
MainNotify ==
  /\ mainPc = "notify"
  /\ mainPc' = "go"
  /\ UNCHANGED <<srv, listenPc, done, signals, conns, shutdowns, ctx>>
  /\ UNCHANGED <<sessionVars, callVars>>

\* go func() { ... }()
MainGo ==
  /\ mainPc = "go"
  /\ mainPc' = "recv"
  /\ listenPc' = "start"
  /\ UNCHANGED <<srv, done, signals, conns, shutdowns, ctx>>
  /\ UNCHANGED <<sessionVars, callVars>>

\* <-done
MainRecv ==
  /\ mainPc = "recv"
  /\ done > 0
  /\ done' = done - 1
  /\ mainPc' = "shutdown"
  /\ UNCHANGED <<srv, listenPc, signals, conns, shutdowns, ctx>>
  /\ UNCHANGED <<sessionVars, callVars>>

\* ctx, cancel := context.WithTimeout(..., 30*time.Second); srv.Shutdown(ctx):
\* the method dereferences srv, a nil srv panics
MainShutdown ==
  /\ mainPc = "shutdown"
  /\ shutdowns' = shutdowns + 1
  /\ ctx' = [timeout |-> shutdownTimeout, expired |-> FALSE]
  /\ mainPc' = IF srv = "nil" THEN "panic" ELSE "wait"
  /\ UNCHANGED <<srv, listenPc, done, signals, conns>>
  /\ UNCHANGED <<sessionVars, callVars>>

\* Shutdown returns when every connection is closed or the context is done;
\* main returns (the deferred cancel runs) and the process exits
ShutdownReturn ==
  /\ mainPc = "wait"
  /\ conns = 0 \/ ctx.expired
  /\ mainPc' = "returned"
  /\ UNCHANGED <<srv, listenPc, done, signals, conns, shutdowns, ctx>>
  /\ UNCHANGED <<sessionVars, callVars>>

\* the context's deadline passes
CtxExpire ==
  /\ mainPc = "wait"
  /\ ~ctx.expired
  /\ ctx' = [ctx EXCEPT !.expired = TRUE]
  /\ UNCHANGED <<srv, mainPc, listenPc, done, signals, conns, shutdowns>>
  /\ UNCHANGED <<sessionVars, callVars>>

\* the process gets Interrupt / SIGINT / SIGTERM after signal.Notify: the
\* runtime sends it to done without blocking, and drops it when done is full
Signal ==
  /\ mainPc \in {"go", "recv", "shutdown", "wait"}
  /\ signals < MaxSignals
  /\ signals' = signals + 1
  /\ done' = Min(done + 1, doneCap)
  /\ UNCHANGED <<srv, mainPc, listenPc, conns, shutdowns, ctx>>
  /\ UNCHANGED <<sessionVars, callVars>>

\* the goroutine calls srv.ListenAndServe(): a nil srv panics, and the panic
\* of a goroutine ends the process; else it serves or fails at once
ListenStart ==
  /\ Alive
  /\ listenPc = "start"
  /\ \/ srv = "nil" /\ listenPc' = "panic" /\ mainPc' = "panic"
     \/ srv = "ok" /\ listenPc' \in {"serving", "failed"} /\ mainPc' = mainPc
  /\ UNCHANGED <<srv, done, signals, conns, shutdowns, ctx>>
  /\ UNCHANGED <<sessionVars, callVars>>

\* ListenAndServe returns an error other than ErrServerClosed while serving
ListenFail ==
  /\ mainPc \in {"recv", "shutdown"}
  /\ listenPc = "serving"
  /\ listenPc' = "failed"
  /\ UNCHANGED <<srv, mainPc, done, signals, conns, shutdowns, ctx>>
  /\ UNCHANGED <<sessionVars, callVars>>

\* done <- nil: blocks while the channel is full
ListenSend ==
  /\ Alive
  /\ listenPc = "failed"
  /\ done < doneCap
  /\ done' = done + 1
  /\ listenPc' = "sent"
  /\ UNCHANGED <<srv, mainPc, signals, conns, shutdowns, ctx>>
  /\ UNCHANGED <<sessionVars, callVars>>

\* Shutdown closed the listener: ListenAndServe returns ErrServerClosed and
\* the goroutine ends without a send
ListenClosed ==
  /\ mainPc = "wait"
  /\ listenPc = "serving"
  /\ listenPc' = "closed"
  /\ UNCHANGED <<srv, mainPc, done, signals, conns, shutdowns, ctx>>
  /\ UNCHANGED <<sessionVars, callVars>>

\* a client connects (not once Shutdown has closed the listener)
Connect ==
  /\ mainPc \in {"recv", "shutdown"}
  /\ listenPc = "serving"
  /\ conns < MaxConns
  /\ conns' = conns + 1
  /\ UNCHANGED <<srv, mainPc, listenPc, done, signals, shutdowns, ctx>>
  /\ UNCHANGED <<sessionVars, callVars>>

\* a client's session ends
Disconnect ==
  /\ Alive
  /\ conns > 0
  /\ conns' = conns - 1
  /\ UNCHANGED <<srv, mainPc, listenPc, done, signals, shutdowns, ctx>>
  /\ UNCHANGED <<sessionVars, callVars>>

\* ------------------------------------------------------------ actions
\* the package-level variables and the session before teaHandler ran
SessionFresh ==
  /\ posts = <<>>
  /\ glamourRenderer = NilRenderer
  /\ lastFitWidth = 0
  /\ blocks = NoBlocks
  /\ status = "none"
  /\ m = NoModel
  /\ lastMsg = NoMsg
  /\ cmds = <<>>
  /\ loads = <<>>
  /\ others = 0
  /\ renders = <<>>
  /\ sets = 0
  /\ errs = 0

Init ==
  /\ variant \in Variants
  /\ disk \in IF variant = "nav" THEN DiskChoices ELSE LandingDiskChoices
  /\ unconvertible \in IF variant = "nav" THEN NavUnconvertible(disk)
                       ELSE LandingUnconvertible(disk)
  /\ SessionFresh
  /\ NoCall
  /\ Serving

\* the server accepts the followed session: teaHandler builds its model and
\* the program draws the first frame, View of that model
TeaHandler ==
  /\ status = "none"
  /\ \E phys \in PhysSizes :
       /\ posts' = IF variant = "nav" THEN NavTeaHandlerPosts(posts, disk) ELSE posts
       /\ m' = IF variant = "nav" THEN NavTeaHandlerModel(posts', phys)
               ELSE LandingTeaHandlerModel(phys)
  /\ status' = IF ViewPanics(variant, m'.fitWidth) THEN "panic" ELSE "running"
  /\ lastMsg' = InitMsg
  /\ cmds' = <<>>
  /\ loads' = IF variant = "nav" THEN NavTeaHandlerLoads(disk) ELSE <<>>
  /\ UNCHANGED <<variant, disk, glamourRenderer, lastFitWidth, blocks, others,
                 unconvertible, renders, sets, errs>>
  /\ UNCHANGED <<callVars, mainVars>>

\* the server accepts another session before the followed one: in the
\* navigation variant its teaHandler appends to the shared slice.  (The
\* followed session's list keeps the slice it was built from, so sessions
\* accepted after it do not change it.)
OtherTeaHandler ==
  /\ status = "none"
  /\ others < MaxOtherSessions
  /\ others' = others + 1
  /\ posts' = IF variant = "nav" THEN NavTeaHandlerPosts(posts, disk) ELSE posts
  /\ UNCHANGED <<variant, disk, glamourRenderer, lastFitWidth, blocks, status,
                 m, lastMsg, cmds, loads, unconvertible, renders, sets, errs>>
  /\ UNCHANGED <<callVars, mainVars>>

\* the program takes what Update returned: the new model and the batched
\* commands, and draws View of the new model; tea.Quit ends the session, a
\* panic in Update ends it with the model as it was, and a panic in View ends
\* it with the model Update returned
Apply(r, msg) ==
  /\ m' = IF r.st = "panic" THEN m ELSE r.m
  /\ glamourRenderer' = r.g
  /\ cmds' = IF r.st = "panic" THEN <<>> ELSE Batch(r.cmds)
  /\ loads' = r.loads
  /\ status' = IF r.st # "panic" /\ ViewPanics(variant, r.m.fitWidth)
                 THEN "panic" ELSE r.st
  /\ lastMsg' = msg
  /\ renders' = r.renders
  /\ sets' = r.sets
  /\ errs' = r.errs

\* the followed session receives a WindowSizeMsg (nav variant)
NavResizeStep ==
  /\ variant = "nav"
  /\ status = "running"
  /\ \E sz \in TermSizes :
       Apply(NavResize(m, glamourRenderer, sz[1], sz[2]), ResizeMsg(sz[1], sz[2]))
  /\ lastFitWidth' = m.fitWidth
  /\ UNCHANGED <<variant, disk, posts, blocks, others, unconvertible>>
  /\ UNCHANGED <<callVars, mainVars>>

\* the followed session receives a KeyMsg (nav variant)
NavKeyStep ==
  /\ variant = "nav"
  /\ status = "running"
  /\ \E k \in Keys : Apply(NavKey(m, glamourRenderer, k), KeyMsg(k))
  /\ UNCHANGED <<variant, disk, posts, lastFitWidth, blocks, others, unconvertible>>
  /\ UNCHANGED <<callVars, mainVars>>

\* ... and the shared blocks it left (landing variant)
LandingApply(r, msg) == Apply(r, msg) /\ blocks' = r.b

\* the followed session receives a WindowSizeMsg (landing variant)
LandingResizeStep ==
  /\ variant = "landing"
  /\ status = "running"
  /\ \E sz \in TermSizes :
       LandingApply(LandingResize(m, glamourRenderer, blocks, sz[1], sz[2]),
                    ResizeMsg(sz[1], sz[2]))
  /\ lastFitWidth' = m.fitWidth
  /\ UNCHANGED <<variant, disk, posts, others, unconvertible>>
  /\ UNCHANGED <<callVars, mainVars>>

\* the followed session receives a KeyMsg (landing variant)
LandingKeyStep ==
  /\ variant = "landing"
  /\ status = "running"
  /\ \E k \in Keys :
       LandingApply(LandingKey(m, glamourRenderer, blocks, k), KeyMsg(k))
  /\ UNCHANGED <<variant, disk, posts, lastFitWidth, others, unconvertible>>
  /\ UNCHANGED <<callVars, mainVars>>

\* another session receives its first WindowSizeMsg between two steps of the
\* followed one (landing variant): its Update stores its fitted width of before
\* in lastFitWidth, and its RerenderContent stores the renderer it builds, the
\* four blocks and flex in the package-level variables.  (In the navigation
\* variant Update writes lastFitWidth, and Rerender glamourRenderer, before
\* reading it, so what another session left there between two steps is never
\* read; a step is taken as a whole.)
OtherResize ==
  /\ variant = "landing"
  /\ status = "running"
  /\ others > 0
  /\ \E sz \in OtherSizes, phys \in OtherPhysSizes :
       /\ lastFitWidth' = Min(phys[1], maxWidth)
       /\ glamourRenderer' =
            IF RendererOk THEN TermRenderer(LandingFitWidth(sz[1])) ELSE glamourRenderer
       /\ blocks' =
            IF RendererOk THEN Arrange(LandingFitWidth(sz[1])) ELSE blocks
  /\ lastMsg' = OtherMsg
  /\ cmds' = <<>>
  /\ loads' = <<>>
  /\ renders' = <<>>
  /\ sets' = 0
  /\ errs' = 0
  /\ UNCHANGED <<variant, disk, posts, status, m, others, unconvertible>>
  /\ UNCHANGED <<callVars, mainVars>>

Next ==
  \/ TeaHandler
  \/ OtherTeaHandler
  \/ OtherResize
  \/ NavResizeStep
  \/ NavKeyStep
  \/ LandingResizeStep
  \/ LandingKeyStep

Spec == Init /\ [][Next]_vars

\* ------------------------------------------------------------ CallSpec
\* a function of the program is applied to one input
CallInit ==
  /\ variant = "nav"
  /\ disk = FullDisk
  /\ unconvertible = {}
  /\ SessionFresh
  /\ Serving
  /\ \/ call \in SplitCalls(MaxFmLines)
     \/ call \in HeaderCalls
     \/ call \in NormalizeCalls(MaxNewlines)
  /\ ret = NoRet

\* md, fm := SplitFrontmatterMarkdown(string(content))
CallSplitFrontmatterMarkdown ==
  /\ call.fn = "SplitFrontmatterMarkdown"
  /\ ret.st = "none"
  /\ ret' = SplitFrontmatterMarkdown(call.args[1])
  /\ UNCHANGED <<sessionVars, call, mainVars>>

\* View: HeaderView(m)
CallHeaderView ==
  /\ call.fn = "HeaderView"
  /\ ret.st = "none"
  /\ ret' = HeaderView(call.args[1], call.args[2], call.args[3], call.args[4])
  /\ UNCHANGED <<sessionVars, call, mainVars>>

\* RerenderContent, Rerender: a converter result on its way into the page
CallNormalize ==
  /\ call.fn = "Normalize"
  /\ ret.st = "none"
  /\ ret' = Normalize(call.args[1], call.args[2], call.args[3], call.args[4])
  /\ UNCHANGED <<sessionVars, call, mainVars>>

CallNext ==
  \/ CallSplitFrontmatterMarkdown
  \/ CallHeaderView
  \/ CallNormalize

CallSpec == CallInit /\ [][CallNext]_vars

\* ------------------------------------------------------------ MainSpec
\* the process starts
MainInit ==
  /\ variant \in Variants
  /\ disk = FullDisk
  /\ unconvertible = {}
  /\ SessionFresh
  /\ NoCall
  /\ srv = "unset"
  /\ mainPc = "start"
  /\ listenPc = "none"
  /\ done = 0
  /\ signals = 0
  /\ conns = 0
  /\ shutdowns = 0
  /\ ctx = NoCtx

\* the steps of the main goroutine and of the listener goroutine
MainProc ==
  MainNewServer \/ MainNotify \/ MainGo \/ MainRecv \/ MainShutdown \/ ShutdownReturn
ListenProc == ListenStart \/ ListenSend \/ ListenClosed

MainNext ==
  \/ MainNewServer
  \/ MainNotify
  \/ MainGo
  \/ MainRecv
  \/ MainShutdown
  \/ ShutdownReturn
  \/ CtxExpire
  \/ Signal
  \/ ListenStart
  \/ ListenFail
  \/ ListenSend
  \/ ListenClosed
  \/ Connect
  \/ Disconnect

\* the scheduler runs a goroutine that can take a step, and time passes
MainSpec ==
  /\ MainInit
  /\ [][MainNext]_vars
  /\ WF_vars(MainProc)
  /\ WF_vars(ListenProc)
  /\ WF_vars(CtxExpire)

\* ------------------------------------------------------------ properties
IsDetail(path) == path \notin {"/root", "/posts"}
NavRunning == variant = "nav" /\ status = "running"

\* C1 as stated: a session starts at Root and the location changes only by
\* Root --p--> List, List --enter--> Detail(selected path), Detail --b--> Root;
\* every other (location, key) pair, the back key at List included, leaves it.
C1_ListedTransitionsOnly ==
  [][ /\ (status = "none" /\ status' = "running" => m'.currentPath = "/root")
      /\ (NavRunning /\ m'.currentPath # m.currentPath =>
            \/ /\ m.currentPath = "/root"
               /\ lastMsg' = KeyMsg("p")
               /\ m'.currentPath = "/posts"
            \/ /\ m.currentPath = "/posts"
               /\ lastMsg' = KeyMsg("enter")
               /\ HasSelectedItem(m.posts)
               /\ m'.currentPath = SelectedItem(m.posts).path
            \/ /\ IsDetail(m.currentPath)
               /\ lastMsg' = KeyMsg("b")
               /\ m'.currentPath = "/root") ]_vars

\* C1 amended: as C1, with the back key leading to Root from List as well as
\* from Detail (from every location other than Root).
C1_TransitionsWithBackFromList ==
  [][ /\ (status = "none" /\ status' = "running" => m'.currentPath = "/root")
      /\ (NavRunning /\ m'.currentPath # m.currentPath =>
            \/ /\ m.currentPath = "/root"
               /\ lastMsg' = KeyMsg("p")
               /\ m'.currentPath = "/posts"
            \/ /\ m.currentPath = "/posts"
               /\ lastMsg' = KeyMsg("enter")
               /\ HasSelectedItem(m.posts)
               /\ m'.currentPath = SelectedItem(m.posts).path
            \/ /\ m.currentPath # "/root"
               /\ lastMsg' = KeyMsg("b")
               /\ m'.currentPath = "/root") ]_vars

\* the back key was pressed at List and the session is at Root, the root file
\* loaded afresh
C1_Witness ==
  /\ NavRunning
  /\ lastMsg = KeyMsg("b")
  /\ m.currentPath = "/root"
  /\ loads = <<RootFile>>

\* C2 as stated: navigation closure.  Selecting an item at List leaves the
\* session running at that Detail with one fresh load of the document, and the
\* back key at a Detail ends at Root, the session running and the body held
\* no longer the Detail's.
C2_NavigationClosure ==
  [][ /\ (NavRunning /\ m.currentPath = "/posts" /\ HasSelectedItem(m.posts)
            /\ lastMsg' = KeyMsg("enter") =>
               /\ status' = "running"
               /\ m'.currentPath = SelectedItem(m.posts).path
               /\ Len(loads') = 1)
      /\ (NavRunning /\ IsDetail(m.currentPath) /\ lastMsg' = KeyMsg("b") =>
               /\ status' = "running"
               /\ m'.currentPath = "/root"
               /\ m'.content # m.content) ]_vars

\* C3 as stated: selecting a list item triggers exactly one load, of the file
\* the item was enumerated from, and the load succeeds when that file exists.
C3_SelectLoadsEnumeratedFile ==
  (variant = "nav" /\ lastMsg = KeyMsg("enter") /\ IsDetail(m.currentPath)) =>
    /\ loads = <<SelectedItem(m.posts).md>>
    /\ (SelectedItem(m.posts).md \in disk => status = "running")

\* a load that failed in the last step
LoadFailed == \E i \in 1..Len(loads) : loads[i] \notin disk

\* C4 as stated: when the document a navigation targets cannot be read, the
\* session does not terminate and the location returns to Root.
C4_LoadFailureReturnsToRoot ==
  (variant = "nav" /\ LoadFailed) => (status = "running" /\ m.currentPath = "/root")

\* C4 amended: when the document a navigation targets cannot be read, the step
\* returns the quit command and the session ends, by that command unless the
\* frame drawn after the step panics first; the location stays the
\* navigation's target (it is not reset to Root) and the unread file is not
\* taken as content.
C4_LoadFailureQuits ==
  (variant = "nav" /\ LoadFailed) =>
    /\ status = IF ViewPanics(variant, m.fitWidth) THEN "panic" ELSE "quit"
    /\ \E i \in 1..Len(cmds) : cmds[i] = Quit
    /\ loads = <<LoadPath(m.currentPath)>>
    /\ m.content # LoadPath(m.currentPath)

\* a selected post could not be read: the session has quit at that Detail
C4_Witness ==
  /\ variant = "nav"
  /\ LoadFailed
  /\ lastMsg = KeyMsg("enter")
  /\ IsDetail(m.currentPath)
  /\ status = "quit"

\* the viewport as the /posts branch leaves it
Cleared(vp) ==
  vp.Width = 0 /\ vp.Height = 0 /\ vp.YOffset = 0 /\ vp.content = EmptyContent

\* every command is a sync of a cleared viewport
AllSyncCleared(cs) ==
  \A i \in 1..Len(cs) : cs[i].type = "sync" /\ Cleared(cs[i].vp)

\* C5: every entry into List (p at Root) and every re-render at List (a resize
\* that is the first one or changes the fitted width) leaves the viewport
\* cleared (0x0, empty content, offset 0) and returns, in the same step, sync
\* commands that carry the cleared viewport; the viewport stays cleared at List.
C5_ListClearsAndSyncs ==
  [][ /\ (NavRunning /\ m.currentPath = "/root" /\ lastMsg' = KeyMsg("p") =>
            /\ m'.currentPath = "/posts"
            /\ Cleared(m'.viewport)
            /\ cmds' # <<>>
            /\ AllSyncCleared(cmds'))
      /\ (NavRunning /\ m.currentPath = "/posts" /\ lastMsg'.type = "resize"
            /\ (~m.loaded \/ m.fitWidth # Min(lastMsg'.w, maxWidth)) =>
            /\ Cleared(m'.viewport)
            /\ Len(cmds') >= 2
            /\ AllSyncCleared(cmds'))
      /\ (NavRunning /\ m'.currentPath = "/posts" => Cleared(m'.viewport)) ]_vars

\* List was entered from a loaded Root page: the viewport that held the root
\* document is cleared and both commands sync the cleared viewport
C5_Witness ==
  /\ NavRunning
  /\ lastMsg = KeyMsg("p")
  /\ m.currentPath = "/posts"
  /\ m.loaded
  /\ m.content = RootFile
  /\ Cleared(m.viewport)
  /\ Len(cmds) = 2
  /\ AllSyncCleared(cmds)

\* C6 as stated: in every session the list holds exactly one item per document
\* file of the store, however many sessions were created before.
C6_OneItemPerDocument ==
  (variant = "nav" /\ status # "none") => Len(m.posts.items) = Len(ReadDir(disk))

\* C7: from any location, loaded or not, the quit key makes Update return the
\* quit command alone, with the session state and the shared state unchanged;
\* the session ends and nothing is loaded or rendered in that step.
C7_QuitLeavesStateUnchanged ==
  [][ (status = "running" /\ lastMsg' = KeyMsg("q")) =>
        /\ m' = m
        /\ cmds' = <<Quit>>
        /\ status' = "quit"
        /\ loads' = <<>>
        /\ UNCHANGED <<posts, glamourRenderer, lastFitWidth, blocks>> ]_vars

\* the quit key was pressed at List
C7_Witness ==
  /\ status = "quit"
  /\ lastMsg = KeyMsg("q")
  /\ m.currentPath = "/posts"
  /\ cmds = <<Quit>>

\* C8 as stated: after every resize with width w the fitted width is min(w, 80)
\* when that is 80 and min(w, 80) - 4 below 80, and it is at most 80 always.
C8_FitWidthWithMargin ==
  /\ (lastMsg.type = "resize" /\ status # "panic" =>
        m.fitWidth = IF Min(lastMsg.w, 80) = 80 THEN 80 ELSE Min(lastMsg.w, 80) - 4)
  /\ m.fitWidth <= 80

\* C8 amended: after every resize with width w the fitted width is, in the
\* landing variant, min(w, 80) when that is 80 and min(w, 80) - 4 below 80, and
\* in the navigation variant min(w, 80) with no margin; it is at most 80 always.
\* (A resize whose handler panics returns no model.)
C8_FitWidthByVariant ==
  /\ (lastMsg.type = "resize" /\ status # "panic" =>
        m.fitWidth = IF variant = "nav" THEN Min(lastMsg.w, 80)
                     ELSE IF Min(lastMsg.w, 80) = 80 THEN 80
                     ELSE Min(lastMsg.w, 80) - 4)
  /\ m.fitWidth <= 80

\* the navigation variant after a resize to 79 columns: fitted width 79
C8_Witness ==
  /\ variant = "nav"
  /\ lastMsg = ResizeMsg(79, 30)
  /\ m.fitWidth = 79

\* C9 as stated: after every resize with height h the viewport height is
\* max(0, h - 8), and the viewport height is never negative.
C9_ViewportHeightFloored ==
  /\ (lastMsg.type = "resize" /\ status # "panic" =>
        m.viewport.Height = Max(0, lastMsg.h - 8))
  /\ (status # "none" => m.viewport.Height >= 0)

\* C10: the four fixed blocks are arranged in a single column exactly when the
\* fitted width they were arranged for is below 80, in two rows of two
\* otherwise; 79 gives the single column and 80 the two rows.
C10_ColumnModeThreshold ==
  /\ (blocks.mode # "none" =>
        /\ (blocks.mode = "single" <=> blocks.fitWidth < 80)
        /\ (blocks.mode = "dual" <=> blocks.fitWidth >= 80)
        /\ (blocks.mode = "single" =>
              Len(blocks.rows) = 4 /\ \A i \in 1..4 : Len(blocks.rows[i]) = 1)
        /\ (blocks.mode = "dual" =>
              Len(blocks.rows) = 2 /\ \A i \in 1..2 : Len(blocks.rows[i]) = 2))
  /\ (variant = "landing" /\ status = "running" /\ lastMsg.type = "resize"
        /\ (\E i \in 1..Len(renders) : renders[i][1] = "prog1") =>
        /\ blocks.fitWidth = m.fitWidth
        /\ m.viewport.content.flex = blocks.mode)
  /\ Arrange(79).mode = "single"
  /\ Arrange(80).mode = "dual"

\* the landing page at full width: two rows of two in the viewport
C10_Witness ==
  /\ variant = "landing"
  /\ status = "running"
  /\ m.fitWidth = 80
  /\ blocks.mode = "dual"
  /\ m.viewport.content.flex = "dual"

\* the blocks of the two rows, in reading order
DualSources ==
  << blocks.rows[1][1].src, blocks.rows[1][2].src,
     blocks.rows[2][1].src, blocks.rows[2][2].src >>

\* C11 as stated: in dual mode the four fixed blocks are paired in order, row A
\* = (block 1, block 2) and row B = (block 3, block 4), every block appears
\* exactly once, and the gap of each row is as high as the higher of the row's
\* own two members.
C11_DualRowsInOrder ==
  blocks.mode = "dual" =>
    /\ DualSources = <<1, 2, 3, 4>>
    /\ \A i \in 1..4 : Cardinality({j \in 1..4 : DualSources[j] = i}) = 1
    /\ GapHeight(blocks.gaps[1]) =
         Max(RenderBlock(1, blocks.wrap).lines, RenderBlock(2, blocks.wrap).lines)
    /\ GapHeight(blocks.gaps[2]) =
         Max(RenderBlock(3, blocks.wrap).lines, RenderBlock(4, blocks.wrap).lines)

\* C12 as stated: once a resize has given the session its size (w, h), the
\* frame View builds has exactly h rows, of which the body (between the 4 rows
\* of the header and the 4 of the footer) has h - 8, for every h.
C12_FrameHeightExact ==
  (status = "running" /\ m.loaded) =>
    /\ ViewLines(m) = m.cmdHeight
    /\ ViewInnerLines(m) = m.cmdHeight - headerHeight - footerHeight

\* C13 as stated: a resize step that the session survives invokes the converter
\* exactly when the session gets its dimensions for the first time or the
\* fitted width differs from its value before the event; a resize that leaves
\* the fitted width unchanged still sets the viewport height and emits a sync.
C13_ConvertOnlyOnWidthChange ==
  [][ (status = "running" /\ lastMsg'.type = "resize" /\ status' = "running") =>
        /\ (renders' # <<>>) <=> (~m.loaded \/ m'.fitWidth # m.fitWidth)
        /\ (m.loaded /\ m'.fitWidth = m.fitWidth =>
              /\ m'.currentPath # "/posts" =>
                   m'.viewport.Height = lastMsg'.h - headerHeight - footerHeight
              /\ \E i \in 1..Len(cmds') : cmds'[i].type = "sync") ]_vars

\* the pairs whose styled output the viewport holds
Held(mm) ==
  IF mm.viewport.content.kind # "container" THEN {}
  ELSE IF variant = "nav"
    THEN {<<mm.viewport.content.text, mm.viewport.content.wrap>>}
    ELSE {<<"top", mm.viewport.content.wrap>>, <<"bot", mm.viewport.content.wrap>>}

\* C14 as stated, for the pairs a session can still be seen to have converted:
\* no step gives the converter a pair whose styled output the viewport already
\* holds, and no step gives it the same pair twice.
C14_ConvertedAtMostOnce ==
  [][ status = "running" =>
        /\ \A i \in 1..Len(renders') : renders'[i] \notin Held(m)
        /\ \A i, j \in 1..Len(renders') : renders'[i] = renders'[j] => i = j ]_vars

\* C15 as stated: a step in which the converter returns an error (from the
\* construction of a renderer or from a Render call) ends the session with the
\* quit command, and the viewport holds no content made from a failed or
\* partial conversion.
C15_ConverterFailureQuits ==
  errs > 0 =>
    /\ status = "quit"
    /\ \E i \in 1..Len(cmds) : cmds[i] = Quit
    /\ m.viewport.content.text \notin (unconvertible \cup {"partial"})

\* C16 as stated: in every state of a session the viewport's offset lies in
\* [0, max(0, content height - viewport height)].
C16_OffsetClamped ==
  status # "none" =>
    /\ m.viewport.YOffset >= 0
    /\ m.viewport.YOffset <= Max(0, m.viewport.content.lines - m.viewport.Height)

\* C17 as stated: a step that replaces the viewport's content returns a sync
\* created after the last replacement, and no step returns a sync created
\* before a content replacement of that step.
C17_SyncAfterEverySet ==
  status \in {"running", "quit"} =>
    /\ sets > 0 => \E i \in 1..Len(cmds) : cmds[i].type = "sync" /\ cmds[i].at = sets
    /\ \A i \in 1..Len(cmds) : cmds[i].type = "sync" => cmds[i].at = sets

\* C18 as stated: after every resize step that the session survives the
\* viewport's anchor is headerHeight + 1, the step returned a sync, and every
\* sync it returned carries that anchor and the viewport height the step left.
C18_ResizeSyncsAnchored ==
  (lastMsg.type = "resize" /\ status = "running") =>
    /\ m.viewport.YPosition = headerHeight + 1
    /\ \E i \in 1..Len(cmds) : cmds[i].type = "sync"
    /\ \A i \in 1..Len(cmds) : cmds[i].type = "sync" =>
         /\ cmds[i].vp.YPosition = headerHeight + 1
         /\ cmds[i].vp.Height = m.viewport.Height

\* C19 as stated: what a session shows after its own events does not depend on
\* the events of other sessions.  After each of its resizes the content of the
\* landing page is rendered by a renderer of the session's own fitted width and
\* holds the blocks as arranged for that width, whatever other sessions did in
\* between.
C19_SessionsIsolated ==
  (variant = "landing" /\ status = "running" /\ lastMsg.type = "resize") =>
    /\ m.viewport.content.wrap = m.fitWidth
    /\ m.viewport.content.flex = ColumnMode(m.fitWidth)

\* C20 as stated: when fs/posts cannot be enumerated the session is created
\* with an empty list and no key event makes it fail: it never panics, and it
\* ends only by a quit key.
C20_EmptyStoreKeepsBrowsing ==
  (variant = "nav" /\ PostsDir \notin disk /\ status # "none") =>
    /\ Len(m.posts.items) = 0
    /\ lastMsg.type = "key" => status # "panic"
    /\ status = "quit" => (lastMsg.type = "key" /\ lastMsg.key \in {"q", "ctrl+c"})


\* ------------------------------------------------------------ SplitFrontmatterMarkdown
\* the call of SplitFrontmatterMarkdown has returned (or panicked)
SplitReturned == call.fn = "SplitFrontmatterMarkdown" /\ ret.st # "none"
\* the lines of the file given to it
FmInputLines == StringsSplit(call.args[1], "\n")
\* the file starts with the opening delimiter
FmOpened == HasPrefix(FmInputLines[1], Delim)
\* the line that closes the block: the first line after the first that
\* starts with the delimiter (0 when there is none)
FmCloseIndex ==
  IF \E i \in 2..Len(FmInputLines) : HasPrefix(FmInputLines[i], Delim)
    THEN CHOOSE i \in 2..Len(FmInputLines) :
           /\ HasPrefix(FmInputLines[i], Delim)
           /\ \A j \in 2..(i - 1) : ~HasPrefix(FmInputLines[j], Delim)
    ELSE 0
\* the key: value lines of a delimited block
FmMetaLines ==
  {i \in 2..(FmCloseIndex - 1) : Contains(FmInputLines[i], ":")}
\* the text before and after the first colon of a line
BeforeColon(line) == SubSeq(line, 1, IndexOf(line, ":") - 1)
AfterColon(line) == SubSeq(line, IndexOf(line, ":") + 1, Len(line))

\* C21: applied to a file whose first line does not start with "---",
\* SplitFrontmatterMarkdown returns the entire input unchanged as the body
\* and an empty metadata map.
C21_NoDelimiterWholeBody ==
  (SplitReturned /\ ~FmOpened) =>
    /\ ret.st = "ok"
    /\ ret.body = call.args[1]
    /\ DOMAIN ret.fm = {}

\* a file without opening delimiter that holds a delimiter line and a
\* key: value line further down was returned whole
C21_Witness ==
  /\ SplitReturned
  /\ ~FmOpened
  /\ \E i, j \in 2..Len(FmInputLines) :
       /\ i < j
       /\ FmInputLines[i] = Delim
       /\ Contains(FmInputLines[j], ":")
  /\ ret.body = call.args[1]

\* C22 as stated: every key: value line of a delimited block is split on its
\* first colon only: the key is the trimmed text before the first colon and
\* the value the trimmed text of everything after it (the last line of a key
\* decides its value).
C22_SplitsOnFirstColon ==
  (SplitReturned /\ ret.st = "ok" /\ FmOpened /\ FmCloseIndex > 0) =>
    \A i \in FmMetaLines :
      /\ TrimSpace(BeforeColon(FmInputLines[i])) \in DOMAIN ret.fm
      /\ (\A j \in FmMetaLines :
            j > i => TrimSpace(BeforeColon(FmInputLines[j]))
                       # TrimSpace(BeforeColon(FmInputLines[i])))
           => ret.fm[TrimSpace(BeforeColon(FmInputLines[i]))]
                = TrimSpace(AfterColon(FmInputLines[i]))

\* C23 as stated: an opening "---" with no closing delimiter line is not
\* fatal and gives an empty map, whatever key: value lines follow it.
C23_UnclosedHeaderEmptyMap ==
  (SplitReturned /\ FmOpened /\ FmCloseIndex = 0) =>
    /\ ret.st = "ok"
    /\ DOMAIN ret.fm = {}


\* ------------------------------------------------------------ HeaderView
\* the call of HeaderView has returned (or panicked)
HeaderReturned == call.fn = "HeaderView" /\ ret.st # "none"
\* the column budget of the header text: the content width minus the
\* side-label width, minus 2 for the border and 2 x 2 for the padding
HeaderBudget == call.args[2] - altLinkWidth(call.args[1]) - 2 - 2 * 2

\* C24 as stated: HeaderView truncates the header text exactly when it exceeds
\* its column budget, the truncated text being its first (budget - 4)
\* characters followed by "..."; text within the budget is shown unchanged.
C24_TruncatesAtBudget ==
  HeaderReturned =>
    /\ ret.st = "ok"
    /\ Visible(ret.content) =
         IF Len(HeaderText(call.args[1], call.args[3])) > HeaderBudget
           THEN SubSeq(HeaderText(call.args[1], call.args[3]), 1, HeaderBudget - 4)
                  \o <<".", ".", ".">>
           ELSE HeaderText(call.args[1], call.args[3])


\* ------------------------------------------------------------ func main
\* a signal was relayed to done, or ListenAndServe returned an error other
\* than ErrServerClosed
ShutdownRequested == signals > 0 \/ listenPc \in {"failed", "sent"}

\* C25 as stated: once a signal is received or ListenAndServe fails, main
\* eventually calls Shutdown exactly once, with a context bounded by 30
\* seconds, and then returns; main never stays blocked on done after it.
C25_ShutdownOnceThenReturns ==
  ShutdownRequested ~> (mainPc = "returned" /\ shutdowns = 1 /\ ctx.timeout = 30)


\* a key with no listed transition at the location `path`
Unlisted(key, path) ==
  /\ key # "q"
  /\ ~(key = "p" /\ path = "/root")
  /\ ~(key = "b" /\ path # "/root")
  /\ ~(key = "enter" /\ path = "/posts")

\* C26 as stated: every key that triggers no listed transition at the current
\* location ("p", "b" and "enter" included where they have none) is forwarded
\* to the active body widget and only to it: the list at List, the viewport
\* elsewhere.
C26_UnlistedKeysForwarded ==
  [][ (NavRunning /\ lastMsg'.type = "key" /\ Unlisted(lastMsg'.key, m.currentPath)) =>
        IF m.currentPath = "/posts"
          THEN /\ m'.posts = ListUpdate(m.posts, lastMsg'.key).l
               /\ m'.viewport = m.viewport
          ELSE /\ m'.viewport = ViewportUpdate(m.viewport, lastMsg'.key).vp
               /\ m'.posts = m.posts ]_vars


\* a step that changed the location and left the session running
NavigatedStep ==
  /\ NavRunning
  /\ lastMsg'.type = "key"
  /\ status' = "running"
  /\ m'.currentPath # m.currentPath

\* a resize of a loaded session away from List that changed the fitted width:
\* Rerender(m, false) ran and nothing else replaced the content
WidthOnlyStep ==
  /\ NavRunning
  /\ m.loaded
  /\ m.currentPath # "/posts"
  /\ lastMsg'.type = "resize"
  /\ status' = "running"
  /\ m'.fitWidth # m.fitWidth

\* C27 as stated: after every successful navigation transition the viewport
\* offset is 0; a re-render caused only by a width change leaves the offset
\* as it was.
C27_OffsetResetOrKept ==
  [][ /\ (NavigatedStep => m'.viewport.YOffset = 0)
      /\ (WidthOnlyStep => m'.viewport.YOffset = m.viewport.YOffset) ]_vars

\* C27 amended: after every successful navigation transition the viewport
\* offset is 0; a re-render caused only by a width change leaves the offset
\* as it was when it still points at a line of the new content, and moves it
\* to the bottom (max(0, lines - height)) when it points past the last line.
C27_OffsetResetOrClamped ==
  [][ /\ (NavigatedStep => m'.viewport.YOffset = 0)
      /\ (WidthOnlyStep =>
            m'.viewport.YOffset =
              IF m.viewport.YOffset > m'.viewport.content.lines - 1
                THEN maxYOffset(m'.viewport)
                ELSE m.viewport.YOffset) ]_vars

\* a width change re-rendered the document of a loaded session (no load in
\* the step) and the viewport is scrolled down after it
C27_Witness ==
  /\ NavRunning
  /\ lastMsg.type = "resize"
  /\ lastFitWidth # m.fitWidth
  /\ loads = <<>>
  /\ renders # <<>>
  /\ m.currentPath # "/posts"
  /\ m.viewport.YOffset > 0


\* C28 as stated: building the list is metadata-only.  teaHandler reads no
\* document, the list items hold title and description and no body, and
\* entering List performs no load.
C28_ListIsMetadataOnly ==
  /\ (variant = "nav" /\ lastMsg.type = "init") => loads = <<>>
  /\ NavRunning => \A i \in 1..Len(m.posts.items) : m.posts.items[i].md = ""
  /\ (NavRunning /\ lastMsg = KeyMsg("p") /\ m.currentPath = "/posts") => loads = <<>>


\* C29: in every reachable state the location is Root, List or Detail(p)
\* with p the path of an item of this session's list, an item teaHandler
\* built from a file of the store.
C29_DetailIsEnumerated ==
  (variant = "nav" /\ status # "none") =>
    \/ m.currentPath \in {"/root", "/posts"}
    \/ \E i \in 1..Len(m.posts.items) :
         /\ m.posts.items[i].path = m.currentPath
         /\ m.posts.items[i].md \in disk

\* a session whose list also holds the items of an earlier session's
\* teaHandler has selected a post
C29_Witness ==
  /\ NavRunning
  /\ lastMsg = KeyMsg("enter")
  /\ IsDetail(m.currentPath)
  /\ others > 0

\* C30: a resize never changes the location or the loaded document text of
\* an already loaded session.
C30_ResizeKeepsDocument ==
  [][ (NavRunning /\ m.loaded /\ lastMsg'.type = "resize") =>
        /\ m'.currentPath = m.currentPath
        /\ m'.content = m.content ]_vars

\* a width change re-rendered a selected post without loading it again
C30_Witness ==
  /\ NavRunning
  /\ lastMsg.type = "resize"
  /\ IsDetail(m.currentPath)
  /\ lastFitWidth # m.fitWidth
  /\ renders # <<>>
  /\ loads = <<>>
  /\ m.content = LoadPath(m.currentPath)


\* the file is "---\n" + M + "\n---\n" + "\n" + B: the first line is the
\* delimiter, M has no line starting with it, the closing line is the
\* delimiter, a blank line follows and B is what follows that line
FmStoreFormat ==
  /\ FmInputLines[1] = Delim
  /\ FmCloseIndex >= 3
  /\ FmInputLines[FmCloseIndex] = Delim
  /\ Len(FmInputLines) >= FmCloseIndex + 2
  /\ FmInputLines[FmCloseIndex + 1] = <<>>

\* C32: round trip of the store format.  For a file "---\n" + M + "\n---\n" +
\* "\n" + B the body returned is exactly B: the file is its header, up to and
\* with the blank separator line, followed by the body returned.
C32_StoreFormatRoundTrip ==
  (SplitReturned /\ FmStoreFormat) =>
    /\ ret.st = "ok"
    /\ call.args[1] =
         StringsJoin(SubSeq(FmInputLines, 1, FmCloseIndex + 1), "\n")
           \o <<"\n">> \o ret.body

\* a file in the store format with a key: value line and a line of body text
\* was split
C32_Witness ==
  /\ SplitReturned
  /\ FmStoreFormat
  /\ Contains(FmInputLines[2], ":")
  /\ ret.body = <<"x">>

\* C36 as stated: whenever HeaderView truncates, the cut position budget - 4
\* is between 0 and the length of the text, so the slice is in range and
\* HeaderView returns.
C36_HeaderSliceInRange ==
  (HeaderReturned
     /\ Len(ApplyNormal(HeaderText(call.args[1], call.args[3]), call.args[4]))
          > HeaderBudget) =>
    /\ 0 <= HeaderBudget - 4
    /\ HeaderBudget - 4 <= Len(ApplyNormal(HeaderText(call.args[1], call.args[3]),
                                           call.args[4]))
    /\ ret.st # "panic"

\* C37 as stated: SplitFrontmatterMarkdown returns a (body, metadata) pair
\* for every input, without an out-of-range access.
C37_SplitAlwaysReturns ==
  SplitReturned => ret.st = "ok"


\* C39 as stated: when wish.NewServer failed, main does not use the nil
\* server: ListenAndServe is not called on it, Shutdown is not called on it
\* and the process does not die of a nil dereference.
C39_FailedServerNotUsed ==
  srv = "nil" =>
    /\ listenPc \in {"none", "start"}
    /\ shutdowns = 0
    /\ mainPc # "panic"


\* ------------------------------------------------------------ normalization
NormalizeReturned == call.fn = "Normalize" /\ ret.st # "none"
\* the converter's result for the text of the site normalized
NormalizeRaw ==
  IF call.args[1] = "block" THEN call.args[4][call.args[2]] ELSE call.args[4][1]

\* C31 as stated: every converter result is used with exactly one leading and
\* exactly one trailing newline removed when present, at every site: the four
\* blocks, top and bot, and the loaded document.
C31_NormalizedAlike ==
  NormalizeReturned =>
    ret.body = TrimSuffix(TrimPrefix(NormalizeRaw, NL), NL)


\* ------------------------------------------------------------ resize, part 2
\* C33 as stated: the commands a resize step returns are run in any order,
\* so any sync among them may be the last the renderer applies; each carries
\* the content and the anchor of the viewport the step returned.
C33_LastSyncIsCurrent ==
  (lastMsg.type = "resize" /\ status = "running") =>
    \A i \in 1..Len(cmds) :
      cmds[i].type = "sync" =>
        /\ cmds[i].vp.content = m.viewport.content
        /\ cmds[i].vp.YPosition = m.viewport.YPosition

\* a resize has been handled and the location is Root or Detail
ResizedOnPage ==
  /\ variant = "nav"
  /\ status = "running"
  /\ m.loaded
  /\ m.currentPath # "/posts"

\* C34 as stated: after a resize at Root or Detail the container in the
\* viewport was placed for the current terminal width and the current
\* viewport height.
C34_ContainerPlacedForCurrentSize ==
  ResizedOnPage =>
    /\ m.viewport.content.W = m.cmdWidth
    /\ m.viewport.content.H = m.viewport.Height

\* C35: in the navigation variant, once a resize has been handled, the
\* viewport height is 0 at List and cmdHeight - headerHeight - footerHeight
\* at Root and Detail.
C35_HeightByLocation ==
  (variant = "nav" /\ status # "none" /\ m.loaded) =>
    m.viewport.Height =
      IF m.currentPath = "/posts" THEN 0
      ELSE m.cmdHeight - headerHeight - footerHeight

\* List was visited (the viewport's width is still the 0 it was cleared to)
\* and left for Root, in a terminal of 10 rows
C35_Witness ==
  /\ variant = "nav"
  /\ status = "running"
  /\ lastMsg = KeyMsg("b")
  /\ m.currentPath = "/root"
  /\ m.cmdHeight = 10
  /\ m.viewport.Height = 2
  /\ m.viewport.Width = 0

\* C38: in the landing variant the blocks are wrapped at half width exactly
\* when they are arranged in two columns, for every fitted width with which
\* RerenderContent built them.
C38_WidthTestsAgree ==
  (variant = "landing" /\ blocks.mode # "none") =>
    /\ (blocks.fitWidth > halfWidthAbove) <=> (blocks.fitWidth >= maxWidth)
    /\ (blocks.wrap = blocks.fitWidth \div 2 - gapWidth) <=> (blocks.mode = "dual")
    /\ (blocks.wrap = blocks.fitWidth) <=> (blocks.mode = "single")

\* the blocks were built for the widest fitted width below maxWidth, in a
\* single column at full width
C38_Witness ==
  /\ variant = "landing"
  /\ status = "running"
  /\ blocks.mode = "single"
  /\ blocks.fitWidth = maxWidth - 1 - fitMargin
  /\ blocks.wrap = blocks.fitWidth

====
